---- MODULE Spec2Model ----
(***************************************************************************)
(* Bayesian network with inference by enumeration (src/Proyecto3.py).      *)
(*                                                                         *)
(* The state is one RedBayesiana: its ordered dict `nodos`, its dict       *)
(* `hijos`, and the outcome of the last call made on it; `evidencia` is a  *)
(* caller's evidence dict and `hilos` the calls of                         *)
(* inferencia_por_enumeracion in progress on the network.  Probabilities   *)
(* are Python floats: they are modelled as IEEE-754 binary64 values with   *)
(* round-to-nearest-even +, -, * and /, so that sums, products and the     *)
(* 1e-6 tolerance behave as they do in the program.                        *)
(*                                                                         *)
(* A value that is used more than once is bound as the parameter of a      *)
(* local operator (LET Con(x) == ... IN Con(e)): TLC evaluates e once.     *)
(***************************************************************************)
EXTENDS Integers, Sequences, FiniteSets, TLC

VARIABLES nodos, hijos, validada, consultas, resultado, evidencia, hilos

vars == <<nodos, hijos, validada, consultas, resultado, evidencia, hilos>>

(***************************************************************************)
(* Natural numbers of any size, as little-endian sequences of limbs        *)
(* (needed because a binary64 significand has 53 bits).                    *)
(***************************************************************************)
LimbBits == 14
Base == 2^LimbBits

Pow2(k) == 2^k

RECURSIVE BNorm(_)
BNorm(a) == IF a = <<>> THEN <<>>
            ELSE IF a[Len(a)] = 0 THEN BNorm(SubSeq(a, 1, Len(a) - 1)) ELSE a

RECURSIVE BFromInt(_)
BFromInt(n) == IF n = 0 THEN <<>> ELSE <<n % Base>> \o BFromInt(n \div Base)

Limb(a, i) == IF i >= 1 /\ i <= Len(a) THEN a[i] ELSE 0

RECURSIVE BAddC(_, _, _, _)
BAddC(a, b, i, c) ==
    IF i > Len(a) /\ i > Len(b)
    THEN (IF c = 0 THEN <<>> ELSE <<c>>)
    ELSE LET s == Limb(a, i) + Limb(b, i) + c
         IN  <<s % Base>> \o BAddC(a, b, i + 1, s \div Base)
BAdd(a, b) == BAddC(a, b, 1, 0)

\* a - b for a >= b
RECURSIVE BSubC(_, _, _, _)
BSubC(a, b, i, c) ==
    IF i > Len(a) THEN <<>>
    ELSE LET s == Limb(a, i) - Limb(b, i) - c
         IN  IF s < 0 THEN <<s + Base>> \o BSubC(a, b, i + 1, 1)
                      ELSE <<s>> \o BSubC(a, b, i + 1, 0)
BSub(a, b) == BNorm(BSubC(a, b, 1, 0))

RECURSIVE BCmpFrom(_, _, _)
BCmpFrom(a, b, i) ==
    IF i = 0 THEN 0
    ELSE IF a[i] < b[i] THEN -1
    ELSE IF a[i] > b[i] THEN 1
    ELSE BCmpFrom(a, b, i - 1)
BCmp(a, b) == IF Len(a) < Len(b) THEN -1
              ELSE IF Len(a) > Len(b) THEN 1
              ELSE BCmpFrom(a, b, Len(a))

RECURSIVE BitLenInt(_)
BitLenInt(n) == IF n = 0 THEN 0 ELSE 1 + BitLenInt(n \div 2)
BBitLen(a) == IF a = <<>> THEN 0 ELSE (Len(a) - 1) * LimbBits + BitLenInt(a[Len(a)])

\* a * 2^k
BShl(a, k) ==
    IF a = <<>> THEN <<>>
    ELSE LET q == k \div LimbBits
             r == k % LimbBits
             m == Pow2(r)
             d == Pow2(LimbBits - r)
             hi == [i \in 1..(Len(a) + 1) |->
                      ((Limb(a, i) * m) % Base) + (Limb(a, i - 1) \div d)]
         IN  BNorm([i \in 1..q |-> 0] \o hi)

\* floor(a / 2^k)
BShr(a, k) ==
    LET q == k \div LimbBits
        r == k % LimbBits
        m == Pow2(r)
        d == Pow2(LimbBits - r)
    IN  IF q >= Len(a) THEN <<>>
        ELSE BNorm([i \in 1..(Len(a) - q) |->
                      (Limb(a, i + q) \div m) + ((Limb(a, i + q + 1) % m) * d)])

BIsOdd(a) == a # <<>> /\ a[1] % 2 = 1

\* the k-th column of the schoolbook product (operands of at most 4 limbs,
\* so a column stays below 2^31)
Column(a, b, k) ==
    LET lo == IF k - Len(b) + 1 > 1 THEN k - Len(b) + 1 ELSE 1
        hi == IF k < Len(a) THEN k ELSE Len(a)
        RECURSIVE S(_)
        S(i) == IF i > hi THEN 0 ELSE a[i] * b[k - i + 1] + S(i + 1)
    IN  S(lo)

RECURSIVE BMulC(_, _, _, _)
BMulC(a, b, k, c) ==
    IF k > Len(a) + Len(b) - 1
    THEN BFromInt(c)
    ELSE LET Con(s) == <<s % Base>> \o BMulC(a, b, k + 1, s \div Base)
         IN  Con(Column(a, b, k) + c)
BMul(a, b) == IF a = <<>> \/ b = <<>> THEN <<>> ELSE BNorm(BMulC(a, b, 1, 0))

BMulSmall(a, d) == IF d = 0 THEN <<>> ELSE BMul(a, <<d>>)

\* largest d with d * b <= r, for r < b * Base and the top limb of b >= Base / 2
RECURSIVE Ajustar(_, _, _)
Ajustar(r, b, d) == IF BCmp(BMulSmall(b, d), r) > 0 THEN Ajustar(r, b, d - 1) ELSE d
Digito(r, b) ==
    IF BCmp(r, b) < 0 THEN 0
    ELSE LET n == Len(b)
             est == (Limb(r, n + 1) * Base + Limb(r, n)) \div b[n]
         IN  Ajustar(r, b, IF est > Base - 1 THEN Base - 1 ELSE est)

\* <<floor(a / b), a mod b>> by long division over the limbs of a
RECURSIVE BDivStep(_, _, _, _)
BDivStep(a, b, i, r) ==
    IF i = 0 THEN <<<<>>, r>>
    ELSE LET Anteponer(qr, d) == <<qr[1] \o <<d>>, qr[2]>>
             ConDigito(r2, d) ==
                 Anteponer(BDivStep(a, b, i - 1, BSub(r2, BMulSmall(b, d))), d)
             ConResto(r2) == ConDigito(r2, Digito(r2, b))
         IN  ConResto(BNorm(<<a[i]>> \o r))
BDivMod(a, b) ==
    LET Salida(qr, sh) == <<BNorm(qr[1]), BShr(qr[2], sh)>>
        Dividir(a2, b2, sh) == Salida(BDivStep(a2, b2, Len(a2), <<>>), sh)
        Con(sh) == Dividir(BShl(a, sh), BShl(b, sh), sh)
    IN  Con(LimbBits - BitLenInt(b[Len(b)]))

(***************************************************************************)
(* Python float = IEEE-754 binary64.  A float is [s, m, e] with value      *)
(* (-1)^s * m * 2^e; m has exactly MantBits bits, or is <<>> for zero.     *)
(* Exponent overflow, subnormals, infinities and NaN are out of reach of   *)
(* the values used here (products of a few probabilities).                 *)
(***************************************************************************)
MantBits == 53

Zero == [s |-> 0, m |-> <<>>, e |-> 0]

\* (-1)^s * M * 2^e rounded to nearest, ties to even
RoundNE(s, M, e) ==
    LET Empaquetar(k, q2) ==
            IF BBitLen(q2) > MantBits
            THEN [s |-> s, m |-> BShr(q2, 1), e |-> e + k + 1]
            ELSE [s |-> s, m |-> q2, e |-> e + k]
        \* c compares the bits dropped with one half
        Subir(k, q, c) ==
            Empaquetar(k, IF c > 0 \/ (c = 0 /\ BIsOdd(q)) THEN BAdd(q, <<1>>) ELSE q)
        Cortar(k, q) == Subir(k, q, BCmp(BSub(M, BShl(q, k)), BShl(<<1>>, k - 1)))
        Con(n) ==
            IF n = 0 THEN Zero
            ELSE IF n <= MantBits
            THEN [s |-> s, m |-> BShl(M, MantBits - n), e |-> e - (MantBits - n)]
            ELSE Cortar(n - MantBits, BShr(M, n - MantBits))
    IN  Con(BBitLen(M))

FromInt(n) == IF n < 0 THEN RoundNE(1, BFromInt(-n), 0) ELSE RoundNE(0, BFromInt(n), 0)

FNeg(a) == IF a.m = <<>> THEN a ELSE [a EXCEPT !.s = 1 - a.s]
FAbs(a) == [a EXCEPT !.s = 0]

FMul(a, b) ==
    IF a.m = <<>> \/ b.m = <<>> THEN Zero
    ELSE RoundNE((a.s + b.s) % 2, BMul(a.m, b.m), a.e + b.e)

\* the exact value of a + b as <<sign, magnitude, exponent>>
ExactSum(a, b) ==
    IF a.m = <<>> THEN <<b.s, b.m, b.e>>
    ELSE IF b.m = <<>> THEN <<a.s, a.m, a.e>>
    ELSE LET Restar(e, x, y, c) ==
                 IF c = 0 THEN <<0, <<>>, 0>>
                 ELSE IF c > 0 THEN <<a.s, BSub(x, y), e>>
                 ELSE <<b.s, BSub(y, x), e>>
             Alineados(e, x, y) ==
                 IF a.s = b.s THEN <<a.s, BAdd(x, y), e>>
                 ELSE Restar(e, x, y, BCmp(x, y))
             Con(e) == Alineados(e, BShl(a.m, a.e - e), BShl(b.m, b.e - e))
         IN  Con(IF a.e < b.e THEN a.e ELSE b.e)

Redondear(x) == RoundNE(x[1], x[2], x[3])

FAdd(a, b) == Redondear(ExactSum(a, b))
FSub(a, b) == FAdd(a, FNeg(b))

\* -1, 0 or 1 as a < b, a = b, a > b
Signo(x) == IF x[2] = <<>> THEN 0 ELSE IF x[1] = 1 THEN -1 ELSE 1
FCmp(a, b) == Signo(ExactSum(a, FNeg(b)))

\* a / b for b # 0
FDiv(a, b) ==
    IF a.m = <<>> THEN Zero
    ELSE LET sh == MantBits + 2
             \* the quotient with a sticky bit for a non-zero remainder
             Pegajoso(qr) == BAdd(BShl(qr[1], 1), IF qr[2] = <<>> THEN <<>> ELSE <<1>>)
         IN  RoundNE((a.s + b.s) % 2, Pegajoso(BDivMod(BShl(a.m, sh), b.m)),
                     a.e - b.e - sh - 1)

\* the float a decimal literal n/d denotes (d a power of ten below 2^31)
Lit(n, d) == FDiv(FromInt(n), FromInt(d))

(***************************************************************************)
(* Data model.  `nodos` is a Python dict: a sequence of Nodo records in    *)
(* insertion order, keyed by `nombre`.  A cpt is a function from parent    *)
(* value tuples to rows; a row is a dict value -> float, kept as a         *)
(* sequence of <<value, float>> pairs in insertion order.  `hijos` is a    *)
(* function from the names that are keys to sequences of child names.      *)
(***************************************************************************)
Ninguno == "None"

CptVacia == [k \in {} |-> <<>>]
HijosVacio == [k \in {} |-> <<>>]

\* Nodo(nombre=..., valores=...): padres and cpt default to empty
Nodo(nombre, valores) ==
    [nombre |-> nombre, valores |-> valores, padres |-> <<>>, cpt |-> CptVacia]

Rango(s) == {s[i] : i \in 1..Len(s)}

Nombres(ns) == {ns[i].nombre : i \in 1..Len(ns)}

\* nombre in self.nodos
Existe(ns, nombre) == nombre \in Nombres(ns)

Indice(ns, nombre) == CHOOSE i \in 1..Len(ns) : ns[i].nombre = nombre

\* self.nodos[nombre]
NodoDe(ns, nombre) == ns[Indice(ns, nombre)]

\* self.hijos.get(nombre, [])
HijosDe(hs, nombre) == IF nombre \in DOMAIN hs THEN hs[nombre] ELSE <<>>

\* d[k] = v on a function used as a dict
Poner(d, k, v) == [x \in (DOMAIN d) \cup {k} |-> IF x = k THEN v ELSE d[x]]

\* self.nodos[nombre] = Nodo(...) when nombre is not yet a key
CrearSiFalta(ns, nombre) ==
    IF Existe(ns, nombre) THEN ns ELSE Append(ns, Nodo(nombre, <<>>))

\* variant: the child is appended to hijos[padre] without the membership test
AgregarAristaSinRevisarHijos(ns, hs, padre, hijo) ==
    LET n1 == CrearSiFalta(CrearSiFalta(ns, padre), hijo)
        ih == Indice(n1, hijo)
        n2 == IF padre \in Rango(n1[ih].padres) THEN n1
              ELSE [n1 EXCEPT ![ih].padres = Append(@, padre)]
        h1 == IF padre \in DOMAIN hs THEN hs ELSE Poner(hs, padre, <<>>)
    IN  <<n2, [h1 EXCEPT ![padre] = Append(@, hijo)]>>

\* agregar_arista: the pair <<nodos, hijos>> after the call
agregar_arista(ns, hs, padre, hijo) ==
    LET n1 == CrearSiFalta(CrearSiFalta(ns, padre), hijo)
        ih == Indice(n1, hijo)
        n2 == IF padre \in Rango(n1[ih].padres) THEN n1
              ELSE [n1 EXCEPT ![ih].padres = Append(@, padre)]
        h1 == IF padre \in DOMAIN hs THEN hs ELSE Poner(hs, padre, <<>>)
        h2 == IF hijo \in Rango(h1[padre]) THEN h1
              ELSE [h1 EXCEPT ![padre] = Append(@, hijo)]
    IN  <<n2, h2>>

\* definir_info_nodo: `nodos` after the call
definir_info_nodo(ns, nombre, valores) ==
    IF ~Existe(ns, nombre) THEN Append(ns, Nodo(nombre, valores))
    ELSE [ns EXCEPT ![Indice(ns, nombre)].valores = valores]

\* sum(fila.values()): Python's sum starts from 0 and adds left to right
RECURSIVE SumaDesde(_, _, _)
SumaDesde(fila, i, acc) ==
    IF i > Len(fila) THEN acc ELSE SumaDesde(fila, i + 1, FAdd(acc, fila[i][2]))
Suma(fila) == SumaDesde(fila, 1, Zero)

Tolerancia == Lit(1, 1000000)
Uno == FromInt(1)

\* variant: total - 1.0 > 1e-6, without the absolute value
NoSumaUnoSinAbs(fila) == FCmp(FSub(Suma(fila), Uno), Tolerancia) > 0

\* abs(total - 1.0) > 1e-6
NoSumaUno(fila) == FCmp(FAbs(FSub(Suma(fila), Uno)), Tolerancia) > 0

\* definir_entrada_cpt: [estado, nodos]; KeyError for an unknown node,
\* ValueError for a row that does not sum to 1, else the row is stored
definir_entrada_cpt(ns, nombre, valores_padres, probabilidades_valores) ==
    IF ~Existe(ns, nombre) THEN [estado |-> "KeyError", nodos |-> ns]
    ELSE IF NoSumaUno(probabilidades_valores)
    THEN [estado |-> "ValueError", nodos |-> ns]
    ELSE [estado |-> "ok",
          nodos |-> [ns EXCEPT ![Indice(ns, nombre)].cpt =
                        Poner(@, valores_padres, probabilidades_valores)]]

\* raices
raices(ns) ==
    LET r == SelectSeq(ns, LAMBDA n : n.padres = <<>>)
    IN  [i \in 1..Len(r) |-> r[i].nombre]

(***************************************************************************)
(* orden_topologico: Kahn's algorithm with a FIFO queue.                   *)
(***************************************************************************)
\* variant: the in-degree of a visited child is left as it was
RECURSIVE ReducirHijosSinDescuento(_, _, _, _)
ReducirHijosSinDescuento(lista, i, grado, cola) ==
    IF i > Len(lista) THEN <<grado, cola>>
    ELSE LET h == lista[i]
         IN  ReducirHijosSinDescuento(lista, i + 1, grado,
                                      IF grado[h] = 0 THEN Append(cola, h) ELSE cola)

\* the loop over the children of nodo_actual: <<grado_entrada, cola>>
RECURSIVE ReducirHijos(_, _, _, _)
ReducirHijos(lista, i, grado, cola) ==
    IF i > Len(lista) THEN <<grado, cola>>
    ELSE LET h == lista[i]
             g == [grado EXCEPT ![h] = @ - 1]
         IN  ReducirHijos(lista, i + 1, g, IF g[h] = 0 THEN Append(cola, h) ELSE cola)

\* variant: orden.insert(0, nodo_actual), the order built back to front
RECURSIVE KahnAlFrente(_, _, _, _)
KahnAlFrente(hs, grado, cola, orden) ==
    IF cola = <<>> THEN orden
    ELSE LET nodo_actual == Head(cola)
             Seguir(gc) == KahnAlFrente(hs, gc[1], gc[2], <<nodo_actual>> \o orden)
         IN  Seguir(ReducirHijos(HijosDe(hs, nodo_actual), 1, grado, Tail(cola)))

\* the while loop: the order built when the queue empties
RECURSIVE Kahn(_, _, _, _)
Kahn(hs, grado, cola, orden) ==
    IF cola = <<>> THEN orden
    ELSE LET nodo_actual == Head(cola)
             Seguir(gc) == Kahn(hs, gc[1], gc[2], Append(orden, nodo_actual))
         IN  Seguir(ReducirHijos(HijosDe(hs, nodo_actual), 1, grado, Tail(cola)))

\* variant: the in-degree only records whether a node has parents
OrdenTopologicoGradoBinario(ns, hs) ==
    LET grado_entrada == [n \in Nombres(ns) |-> IF NodoDe(ns, n).padres = <<>> THEN 0 ELSE 1]
        todos == [i \in 1..Len(ns) |-> ns[i].nombre]
        Salida(orden) ==
            IF Len(orden) # Len(ns)
            THEN [estado |-> "ValueError", motivo |-> "ciclo", valor |-> Ninguno]
            ELSE [estado |-> "ok", motivo |-> Ninguno, valor |-> orden]
        Con(grado) == Salida(Kahn(hs, grado, SelectSeq(todos, LAMBDA n : grado[n] = 0), <<>>))
    IN  Con(grado_entrada)

orden_topologico(ns, hs) ==
    LET grado_entrada == [n \in Nombres(ns) |-> Len(NodoDe(ns, n).padres)]
        todos == [i \in 1..Len(ns) |-> ns[i].nombre]
        Salida(orden) ==
            IF Len(orden) # Len(ns)
            THEN [estado |-> "ValueError", motivo |-> "ciclo", valor |-> Ninguno]
            ELSE [estado |-> "ok", motivo |-> Ninguno, valor |-> orden]
        Con(grado) == Salida(Kahn(hs, grado, SelectSeq(todos, LAMBDA n : grado[n] = 0), <<>>))
    IN  Con(grado_entrada)

(***************************************************************************)
(* validar_red                                                             *)
(***************************************************************************)
\* combinaciones_padres: every tuple of values of the parents, in parent order
RECURSIVE Combinaciones(_, _, _)
Combinaciones(ns, padres, i) ==
    IF i = 0 THEN {<<>>}
    ELSE {Append(comb, valor) : comb \in Combinaciones(ns, padres, i - 1),
                                valor \in Rango(NodoDe(ns, padres[i]).valores)}

\* the checks of one node: the reason of the first one that fails, or "ok"
ValidarNodo(ns, nodo) ==
    IF nodo.valores = <<>> THEN "sin_valores"
    ELSE IF nodo.padres # <<>>
            /\ \E comb \in Combinaciones(ns, nodo.padres, Len(nodo.padres)) :
                  comb \notin DOMAIN nodo.cpt
    THEN "falta_cpt"
    ELSE IF nodo.padres = <<>> /\ <<>> \notin DOMAIN nodo.cpt
    THEN "falta_cpt_raiz"
    ELSE IF \E clave \in DOMAIN nodo.cpt : NoSumaUno(nodo.cpt[clave])
    THEN "no_suma_1"
    ELSE "ok"

\* the loop over self.nodos.items(): raises at the first node that fails
RECURSIVE ValidarDesde(_, _)
ValidarDesde(ns, i) ==
    IF i > Len(ns) THEN [estado |-> "ok", motivo |-> Ninguno]
    ELSE LET Con(r) == IF r # "ok" THEN [estado |-> "ValueError", motivo |-> r]
                       ELSE ValidarDesde(ns, i + 1)
         IN  Con(ValidarNodo(ns, ns[i]))

validar_red(ns) == ValidarDesde(ns, 1)

(***************************************************************************)
(* Nodo.probabilidad and the enumeration                                   *)
(***************************************************************************)
Error(tipo, motivo) == [estado |-> tipo, motivo |-> motivo, valor |-> Ninguno]
Valor(v) == [estado |-> "ok", motivo |-> Ninguno, valor |-> v]

Claves(fila) == {fila[i][1] : i \in 1..Len(fila)}

\* fila[valor] for a key of the row
Buscar(fila, valor) == fila[CHOOSE i \in 1..Len(fila) : fila[i][1] = valor][2]

\* fila[k] = v: a new key goes last, an existing key keeps its place
PonerFila(fila, k, v) ==
    IF k \in Claves(fila)
    THEN [i \in 1..Len(fila) |-> IF fila[i][1] = k THEN <<k, v>> ELSE fila[i]]
    ELSE Append(fila, <<k, v>>)

\* variant: a value the row lacks has probability 0
ProbabilidadCeroSiFalta(nodo, valor, asignacion_padres) ==
    IF \E i \in 1..Len(nodo.padres) : nodo.padres[i] \notin DOMAIN asignacion_padres
    THEN Error("KeyError", "padre_sin_valor")
    ELSE LET Con(clave) ==
                 IF clave \notin DOMAIN nodo.cpt
                 THEN Error("KeyError", "falta_entrada")
                 ELSE IF valor \notin Claves(nodo.cpt[clave]) THEN Valor(Zero)
                 ELSE Valor(Buscar(nodo.cpt[clave], valor))
         IN  Con([i \in 1..Len(nodo.padres) |-> asignacion_padres[nodo.padres[i]]])

\* Nodo.probabilidad: the float self.cpt[clave][valor], or KeyError
probabilidad(nodo, valor, asignacion_padres) ==
    IF \E i \in 1..Len(nodo.padres) : nodo.padres[i] \notin DOMAIN asignacion_padres
    THEN Error("KeyError", "padre_sin_valor")
    ELSE LET Con(clave) ==
                 IF clave \notin DOMAIN nodo.cpt \/ valor \notin Claves(nodo.cpt[clave])
                 THEN Error("KeyError", "falta_entrada")
                 ELSE Valor(Buscar(nodo.cpt[clave], valor))
         IN  Con([i \in 1..Len(nodo.padres) |-> asignacion_padres[nodo.padres[i]]])

\* {p: condiciones[p] for p in nodo_actual.padres if p in condiciones}
AsignacionPadres(nodo, condiciones) ==
    [p \in Rango(nodo.padres) \cap DOMAIN condiciones |-> condiciones[p]]

\* _enumerar_todas(variables, condiciones): [estado, motivo, valor]
RECURSIVE enumerar_todas(_, _, _)
RECURSIVE SumarValores(_, _, _, _, _)

\* variant: subtotal = probabilidad, without the recursive factor
RECURSIVE SumarValoresSinResto(_, _, _, _, _)
SumarValoresSinResto(ns, variables, condiciones, i, total) ==
    LET ConP(p) ==
            IF p.estado # "ok" THEN p
            ELSE SumarValoresSinResto(ns, variables, condiciones, i + 1,
                                      FAdd(total, p.valor))
        Con(nodo_actual) ==
            IF i > Len(nodo_actual.valores) THEN Valor(total)
            ELSE ConP(probabilidad(nodo_actual, nodo_actual.valores[i],
                                   AsignacionPadres(nodo_actual, condiciones)))
    IN  Con(NodoDe(ns, variables[1]))

\* the loop `for valor_posible in nodo_actual.valores` from index i on,
\* with `total` accumulated so far
SumarValores(ns, variables, condiciones, i, total) ==
    LET ConResto(p, resto) ==
            IF resto.estado # "ok" THEN resto
            ELSE SumarValores(ns, variables, condiciones, i + 1,
                              FAdd(total, FMul(p.valor, resto.valor)))
        ConP(valor_posible, p) ==
            IF p.estado # "ok" THEN p
            ELSE ConResto(p, enumerar_todas(ns, Tail(variables),
                                            Poner(condiciones, variables[1], valor_posible)))
        Con(nodo_actual) ==
            IF i > Len(nodo_actual.valores) THEN Valor(total)
            ELSE ConP(nodo_actual.valores[i],
                      probabilidad(nodo_actual, nodo_actual.valores[i],
                                   AsignacionPadres(nodo_actual, condiciones)))
    IN  Con(NodoDe(ns, variables[1]))

\* variant: an observed variable contributes no factor
EnumerarSinObservada(ns, variables, condiciones) ==
    IF variables = <<>> THEN Valor(Uno)
    ELSE IF variables[1] \in DOMAIN condiciones
    THEN enumerar_todas(ns, Tail(variables), condiciones)
    ELSE SumarValores(ns, variables, condiciones, 1, Zero)

enumerar_todas(ns, variables, condiciones) ==
    IF variables = <<>> THEN Valor(Uno)
    ELSE LET variable_actual == variables[1]
             ConResto(p, resto) ==
                 IF resto.estado # "ok" THEN resto
                 ELSE Valor(FMul(p.valor, resto.valor))
             ConP(p) ==
                 IF p.estado # "ok" THEN p
                 ELSE ConResto(p, enumerar_todas(ns, Tail(variables), condiciones))
             Con(nodo_actual) ==
                 ConP(probabilidad(nodo_actual, condiciones[variable_actual],
                                   AsignacionPadres(nodo_actual, condiciones)))
         IN  IF variable_actual \in DOMAIN condiciones
             THEN Con(NodoDe(ns, variable_actual))
             ELSE SumarValores(ns, variables, condiciones, 1, Zero)

(***************************************************************************)
(* inferencia_por_enumeracion                                              *)
(***************************************************************************)
\* variant: the query value is not added to the conditions
RECURSIVE PuntajesSinExtender(_, _, _, _, _, _)
PuntajesSinExtender(ns, orden_variables, variable_consulta, condiciones_observadas, i, distribucion) ==
    LET ConP(valor, p) ==
            IF p.estado # "ok" THEN p
            ELSE PuntajesSinExtender(ns, orden_variables, variable_consulta,
                                     condiciones_observadas, i + 1,
                                     PonerFila(distribucion, valor, p.valor))
        Con(valores) ==
            IF i > Len(valores) THEN Valor(distribucion)
            ELSE ConP(valores[i], enumerar_todas(ns, orden_variables, condiciones_observadas))
    IN  Con(NodoDe(ns, variable_consulta).valores)

\* variant: condiciones_extendidas.setdefault(variable_consulta, valor), an
\* entry of the evidence for the query variable is kept
RECURSIVE PuntajesSinPisar(_, _, _, _, _, _)
PuntajesSinPisar(ns, orden_variables, variable_consulta, condiciones_observadas, i, distribucion) ==
    LET ConP(valor, p) ==
            IF p.estado # "ok" THEN p
            ELSE PuntajesSinPisar(ns, orden_variables, variable_consulta,
                                  condiciones_observadas, i + 1,
                                  PonerFila(distribucion, valor, p.valor))
        Con(valores) ==
            IF i > Len(valores) THEN Valor(distribucion)
            ELSE ConP(valores[i],
                      enumerar_todas(ns, orden_variables,
                          IF variable_consulta \in DOMAIN condiciones_observadas
                          THEN condiciones_observadas
                          ELSE Poner(condiciones_observadas, variable_consulta,
                                     valores[i])))
    IN  Con(NodoDe(ns, variable_consulta).valores)

\* the loop over nodo_consulta.valores from index i on: the raw distribution
\* (a row), or the KeyError of the first value whose enumeration fails
RECURSIVE Puntajes(_, _, _, _, _, _)
Puntajes(ns, orden_variables, variable_consulta, condiciones_observadas, i, distribucion) ==
    LET ConP(valor, p) ==
            IF p.estado # "ok" THEN p
            ELSE Puntajes(ns, orden_variables, variable_consulta,
                          condiciones_observadas, i + 1,
                          PonerFila(distribucion, valor, p.valor))
        Con(valores) ==
            IF i > Len(valores) THEN Valor(distribucion)
            ELSE ConP(valores[i],
                      enumerar_todas(ns, orden_variables,
                          Poner(condiciones_observadas, variable_consulta, valores[i])))
    IN  Con(NodoDe(ns, variable_consulta).valores)

\* variant: distribucion[valor] /= len(distribucion)
NormalizarPorCantidad(distribucion, total) ==
    [i \in 1..Len(distribucion) |->
        <<distribucion[i][1], FDiv(distribucion[i][2], FromInt(Len(distribucion)))>>]

\* distribucion[valor] /= total for every key
Normalizar(distribucion, total) ==
    [i \in 1..Len(distribucion) |->
        <<distribucion[i][1], FDiv(distribucion[i][2], total)>>]

\* variant: no test of total against 0; a zero total leaves the scores as they are
InferenciaSinGuardaDeCero(ns, hs, variable_consulta, condiciones_observadas) ==
    LET ConTotal(distribucion, total) ==
            [estado |-> "ok", motivo |-> Ninguno,
             valor |-> IF total = Zero THEN distribucion
                       ELSE Normalizar(distribucion, total),
             total |-> total]
        ConPuntajes(crudo) ==
            IF crudo.estado # "ok"
            THEN [estado |-> "KeyError", motivo |-> crudo.motivo, valor |-> Ninguno,
                  total |-> Ninguno]
            ELSE ConTotal(crudo.valor, Suma(crudo.valor))
        ConOrden(orden) ==
            IF orden.estado # "ok"
            THEN [estado |-> "ValueError", motivo |-> "ciclo", valor |-> Ninguno,
                  total |-> Ninguno]
            ELSE ConPuntajes(Puntajes(ns, orden.valor, variable_consulta,
                                      condiciones_observadas, 1, <<>>))
    IN  IF ~Existe(ns, variable_consulta)
        THEN [estado |-> "KeyError", motivo |-> "consulta", valor |-> Ninguno,
              total |-> Ninguno]
        ELSE ConOrden(orden_topologico(ns, hs))

\* [estado, motivo, valor, total]: the returned distribution, or the error;
\* total is the local of that name when the code computes it
inferencia_por_enumeracion(ns, hs, variable_consulta, condiciones_observadas) ==
    LET ConTotal(distribucion, total) ==
            IF total = Zero
            THEN [estado |-> "ValueError", motivo |-> "total_cero", valor |-> Ninguno,
                  total |-> total]
            ELSE [estado |-> "ok", motivo |-> Ninguno,
                  valor |-> Normalizar(distribucion, total), total |-> total]
        ConPuntajes(crudo) ==
            IF crudo.estado # "ok"
            THEN [estado |-> "KeyError", motivo |-> crudo.motivo, valor |-> Ninguno,
                  total |-> Ninguno]
            ELSE ConTotal(crudo.valor, Suma(crudo.valor))
        ConOrden(orden) ==
            IF orden.estado # "ok"
            THEN [estado |-> "ValueError", motivo |-> "ciclo", valor |-> Ninguno,
                  total |-> Ninguno]
            ELSE ConPuntajes(Puntajes(ns, orden.valor, variable_consulta,
                                      condiciones_observadas, 1, <<>>))
    IN  IF ~Existe(ns, variable_consulta)
        THEN [estado |-> "KeyError", motivo |-> "consulta", valor |-> Ninguno,
              total |-> Ninguno]
        ELSE ConOrden(orden_topologico(ns, hs))

(***************************************************************************)
(* Inputs of the calls.  The network is built in the order the loader      *)
(* uses (desde_archivos): edges before the child's rows, rows keyed by one *)
(* value per parent.                                                       *)
(***************************************************************************)
Fila(si, no) == << <<"yes", si>>, <<"no", no>> >>

FilaLluvia      == Fila(Lit(2, 10), Lit(8, 10))
FilaParaguasSi  == Fila(Lit(9, 10), Lit(1, 10))
FilaCero        == Fila(Zero, Uno)
\* sums to 1.0000005: inside the tolerance
FilaHolgada     == Fila(Lit(2000005, 10000000), Lit(8, 10))
\* no entry for "no"
FilaIncompleta  == << <<"yes", Uno>> >>
\* a negative entry, sum 1
FilaNegativa    == Fila(Lit(12, 10), Lit(-2, 10))
\* sums 0.9 and 1.1: outside the tolerance
FilaCorta       == Fila(Lit(1, 10), Lit(8, 10))
FilaLarga       == Fila(Lit(3, 10), Lit(8, 10))

AristasEntrada == {<<"Rain", "Umbrella">>, <<"Umbrella", "Umbrella">>}

DominiosEntrada == {<<"Rain", <<"yes", "no">>>>,
                    <<"Umbrella", <<"yes", "no">>>>,
                    <<"Umbrella", <<"yes">>>>}

\* <<nombre, valores_padres, probabilidades_valores>>
EntradasCpt ==
    {<<"Rain", <<>>, f>> : f \in {FilaLluvia, FilaHolgada}}
    \cup {<<"Umbrella", <<>>, f>> : f \in {FilaParaguasSi, FilaCero}}
    \cup {<<"Umbrella", <<"yes">>, f>> :
             f \in {FilaParaguasSi, FilaIncompleta, FilaNegativa}}
    \cup {<<"Umbrella", <<"no">>, f>> : f \in {FilaLluvia, FilaCorta}}

\* rows written straight into nodo.cpt, without definir_entrada_cpt's check
EscriturasDirectas ==
    {<<"Rain", <<>>, f>> : f \in {FilaCorta, FilaLarga}}

ConsultasEntrada == {"Rain", "Umbrella", "Wind"}

SinCondiciones == [k \in {} |-> ""]

Cond1(k, v) == [x \in {k} |-> v]

Cond2(k1, v1, k2, v2) == [x \in {k1, k2} |-> IF x = k1 THEN v1 ELSE v2]

CondicionesEntrada ==
    {SinCondiciones, Cond1("Umbrella", "yes"), Cond1("Umbrella", "no"),
     Cond1("Umbrella", "bogus"), Cond1("Rain", "yes"), Cond1("Rain", "bogus")}

(***************************************************************************)
(* The state machine: one action per call on the network.                  *)
(***************************************************************************)
\* the outcome of a call that returns None
SinResultado == [op |-> Ninguno, estado |-> "ok"]

\* queries made on the network since it was last validated or changed
MaxConsultas == 1

\* the calls of inferencia_por_enumeracion that may run at the same time
NumHilos == 2

Hilos == 1..NumHilos

\* the locals of one call: where it is (pc), its arguments, orden_variables,
\* the index of the next value of the query variable, distribucion, and
\* what it returned or raised
HiloLibre ==
    [pc |-> "libre", consulta |-> Ninguno, traza |-> FALSE, orden |-> <<>>,
     i |-> 0, distribucion |-> <<>>, impreso |-> FALSE, estado |-> "ok",
     motivo |-> Ninguno, valor |-> Ninguno, total |-> Ninguno]

Init ==
    /\ nodos = <<>>
    /\ hijos = HijosVacio
    /\ validada = FALSE
    /\ consultas = 0
    /\ resultado = SinResultado
    /\ evidencia = SinCondiciones
    /\ hilos = [t \in Hilos |-> HiloLibre]

SinFilas(ns, nombre) ==
    IF Existe(ns, nombre) THEN DOMAIN NodoDe(ns, nombre).cpt = {} ELSE TRUE

ClaveDePadres(ns, nombre, clave) ==
    IF Existe(ns, nombre) THEN Len(clave) = Len(NodoDe(ns, nombre).padres) ELSE TRUE

Llamar_agregar_arista(aristas) ==
    \E a \in aristas :
        /\ SinFilas(nodos, a[2])
        /\ LET Aplicar(r) == nodos' = r[1] /\ hijos' = r[2]
           IN  Aplicar(agregar_arista(nodos, hijos, a[1], a[2]))
        /\ validada' = FALSE
        /\ consultas' = 0
        /\ resultado' = SinResultado
        /\ UNCHANGED <<evidencia, hilos>>

Llamar_definir_info_nodo(dominios) ==
    \E d \in dominios :
        /\ nodos' = definir_info_nodo(nodos, d[1], d[2])
        /\ validada' = FALSE
        /\ consultas' = 0
        /\ resultado' = SinResultado
        /\ UNCHANGED <<hijos, evidencia, hilos>>

Llamar_definir_entrada_cpt(entradas) ==
    \E e \in entradas :
        /\ ClaveDePadres(nodos, e[1], e[2])
        /\ LET Aplicar(r) ==
                   /\ nodos' = r.nodos
                   /\ resultado' = IF r.estado = "ok" THEN SinResultado
                                   ELSE [op |-> "definir_entrada_cpt", estado |-> r.estado]
           IN  Aplicar(definir_entrada_cpt(nodos, e[1], e[2], e[3]))
        /\ validada' = FALSE
        /\ consultas' = 0
        /\ UNCHANGED <<hijos, evidencia, hilos>>

\* nodo.cpt[clave] = fila, by a caller that holds the Nodo
Escribir_cpt ==
    \E e \in EscriturasDirectas :
        /\ Existe(nodos, e[1])
        /\ ClaveDePadres(nodos, e[1], e[2])
        /\ nodos' = [nodos EXCEPT ![Indice(nodos, e[1])].cpt = Poner(@, e[2], e[3])]
        /\ validada' = FALSE
        /\ consultas' = 0
        /\ resultado' = SinResultado
        /\ UNCHANGED <<hijos, evidencia, hilos>>

\* variant: a successful validation rescales every row to sum 1
ValidarYNormalizar ==
    /\ LET Aplicar(r) ==
               /\ resultado' = [op |-> "validar_red", estado |-> r.estado,
                                 motivo |-> r.motivo]
               /\ validada' = (r.estado = "ok")
               /\ nodos' = IF r.estado # "ok" THEN nodos
                           ELSE [i \in 1..Len(nodos) |->
                                   [nodos[i] EXCEPT !.cpt =
                                       [k \in DOMAIN @ |-> Normalizar(@[k], Suma(@[k]))]]]
       IN  Aplicar(validar_red(nodos))
    /\ consultas' = 0
    /\ UNCHANGED <<hijos, evidencia, hilos>>

Llamar_validar_red ==
    /\ LET Aplicar(r) ==
               /\ resultado' = [op |-> "validar_red", estado |-> r.estado,
                                 motivo |-> r.motivo]
               /\ validada' = (r.estado = "ok")
       IN  Aplicar(validar_red(nodos))
    /\ consultas' = 0
    /\ UNCHANGED <<nodos, hijos, evidencia, hilos>>

Llamar_orden_topologico ==
    /\ LET Aplicar(r) ==
               resultado' = [op |-> "orden_topologico", estado |-> r.estado,
                             motivo |-> r.motivo, valor |-> r.valor]
       IN  Aplicar(orden_topologico(nodos, hijos))
    /\ UNCHANGED <<nodos, hijos, validada, consultas, evidencia, hilos>>

\* queries are made on a network validar_red has accepted, as the loader
\* and the menu do (desde_archivos validates before it returns the network)
Llamar_inferencia(evidencias) ==
    /\ validada
    /\ consultas < MaxConsultas
    /\ \E q \in ConsultasEntrada, c \in evidencias :
          LET Aplicar(r) ==
                  resultado' = [op |-> "inferencia_por_enumeracion",
                                consulta |-> q, condiciones |-> c,
                                estado |-> r.estado, motivo |-> r.motivo,
                                valor |-> r.valor, total |-> r.total]
          IN  Aplicar(inferencia_por_enumeracion(nodos, hijos, q, c))
    /\ consultas' = consultas + 1
    /\ UNCHANGED <<nodos, hijos, validada, evidencia, hilos>>

\* the orderings of all the nodes in which every parent precedes its children
Permutaciones(S) ==
    {p \in [1..Cardinality(S) -> S] : \A x \in S : \E i \in DOMAIN p : p[i] = x}

Posicion(o, n) == CHOOSE i \in 1..Len(o) : o[i] = n

EsOrdenTopologico(ns, o) ==
    /\ Len(o) = Len(ns)
    /\ Rango(o) = Nombres(ns)
    /\ \A i \in 1..Len(ns) : \A j \in 1..Len(ns[i].padres) :
          Posicion(o, ns[i].padres[j]) < Posicion(o, ns[i].nombre)

OrdenesValidos(ns) == {o \in Permutaciones(Nombres(ns)) : EsOrdenTopologico(ns, o)}

Llamar_enumerar_todas ==
    /\ validada
    /\ consultas < MaxConsultas
    /\ \E o \in OrdenesValidos(nodos), c \in CondicionesEntrada :
          LET Aplicar(r) ==
                  resultado' = [op |-> "enumerar_todas", variables |-> o,
                                condiciones |-> c, estado |-> r.estado,
                                motivo |-> r.motivo, valor |-> r.valor]
          IN  Aplicar(enumerar_todas(nodos, o, c))
    /\ consultas' = consultas + 1
    /\ UNCHANGED <<nodos, hijos, validada, evidencia, hilos>>

Next ==
    \/ Llamar_agregar_arista(AristasEntrada)
    \/ Llamar_definir_info_nodo(DominiosEntrada)
    \/ Llamar_definir_entrada_cpt(EntradasCpt)
    \/ Escribir_cpt
    \/ Llamar_validar_red
    \/ Llamar_orden_topologico
    \/ Llamar_inferencia(CondicionesEntrada)
    \/ Llamar_enumerar_todas

Spec == Init /\ [][Next]_vars

(***************************************************************************)
(* The structure: any sequence of agregar_arista, definir_info_nodo and    *)
(* definir_entrada_cpt calls over three names, self-loops included.        *)
(***************************************************************************)
NombresEstructura == {"Rain", "Sprinkler", "Umbrella"}

AristasEstructura == NombresEstructura \X NombresEstructura

DominiosEstructura == {<<n, <<"yes", "no">>>> : n \in NombresEstructura}

\* a prior row for Rain, a row of Sprinkler under one parent
EntradasEstructura ==
    {<<"Rain", <<>>, FilaLluvia>>, <<"Sprinkler", <<"yes">>, FilaParaguasSi>>}

\* edges a network of the structure specification may hold
MaxAristas == 4

RECURSIVE NumAristas(_, _)
NumAristas(ns, i) == IF i > Len(ns) THEN 0 ELSE Len(ns[i].padres) + NumAristas(ns, i + 1)

Agregar_arista_libre ==
    /\ NumAristas(nodos, 1) < MaxAristas
    /\ Llamar_agregar_arista(AristasEstructura)

NextEstructura ==
    \/ Agregar_arista_libre
    \/ Llamar_definir_info_nodo(DominiosEstructura)
    \/ Llamar_definir_entrada_cpt(EntradasEstructura)
    \/ Llamar_orden_topologico

SpecEstructura == Init /\ [][NextEstructura]_vars

(***************************************************************************)
(* Properties                                                              *)
(***************************************************************************)
\* p is a parent of c
EsPadre(ns, p, c) == p \in Rango(NodoDe(ns, c).padres)

\* c is reached from p along k or fewer parent -> child edges, k >= 1
RECURSIVE Alcanza(_, _, _, _)
Alcanza(ns, p, c, k) ==
    IF k = 0 THEN FALSE
    ELSE \/ EsPadre(ns, p, c)
         \/ \E m \in Nombres(ns) : EsPadre(ns, p, m) /\ Alcanza(ns, m, c, k - 1)

\* the parent/child relation has a directed cycle
TieneCiclo(ns) == \E n \in Nombres(ns) : Alcanza(ns, n, n, Len(ns))

SinRepetidos(s) == \A i, j \in 1..Len(s) : s[i] = s[j] => i = j

\* C3: whenever orden_topologico returns, its result holds every node of the
\* network exactly once and every parent comes before each of its children.
C3_PadresAntesDeHijos ==
    (resultado.op = "orden_topologico" /\ resultado.estado = "ok")
        => /\ Len(resultado.valor) = Len(nodos)
           /\ Rango(resultado.valor) = Nombres(nodos)
           /\ SinRepetidos(resultado.valor)
           /\ \A c \in Nombres(nodos) : \A p \in Rango(NodoDe(nodos, c).padres) :
                 Posicion(resultado.valor, p) < Posicion(resultado.valor, c)

\* a node with two parents, ordered after both
C3_Testigo ==
    /\ resultado.op = "orden_topologico"
    /\ resultado.estado = "ok"
    /\ Len(nodos) = 3
    /\ \E i \in 1..Len(nodos) : Len(nodos[i].padres) = 2

\* C4: orden_topologico raises ValueError exactly when the parent/child
\* relation has a directed cycle (a self-loop included); on an acyclic
\* network it returns.
C4_ErrorSiiCiclo ==
    resultado.op = "orden_topologico"
        => /\ resultado.estado \in {"ok", "ValueError"}
           /\ (resultado.estado = "ValueError") <=> TieneCiclo(nodos)

\* the call failed on a network whose only cycle is a self-loop
C4_Testigo ==
    /\ resultado.op = "orden_topologico"
    /\ resultado.estado = "ValueError"
    /\ \E n \in Nombres(nodos) : EsPadre(nodos, n, n)
    /\ \A n, m \in Nombres(nodos) : (n # m /\ Alcanza(nodos, n, m, Len(nodos)))
                                      => ~Alcanza(nodos, m, n, Len(nodos))

(***************************************************************************)
(* Properties of validation and inference                                  *)
(***************************************************************************)
Rec(t) == [s |-> t[1], m |-> t[2], e |-> t[3]]

\* the sum of the floats of a row as a real number, without rounding
RECURSIVE SumaExactaDesde(_, _, _)
SumaExactaDesde(fila, i, acc) ==
    IF i > Len(fila) THEN acc
    ELSE SumaExactaDesde(fila, i + 1, Rec(ExactSum(acc, fila[i][2])))
SumaExacta(fila) == SumaExactaDesde(fila, 1, Zero)

\* |x - y| > tol, computed without rounding
MasLejosQue(x, y, tol) ==
    LET d == Rec(ExactSum(x, FNeg(y)))
        c == ExactSum(FAbs(d), FNeg(tol))
    IN  c[2] # <<>> /\ c[1] = 0

\* 0 <= x <= 1
EnCeroUno(x) == FCmp(x, Zero) >= 0 /\ FCmp(x, Uno) <= 0

\* every row is keyed by exactly the values of its node's domain, which are
\* distinct, and holds probabilities in [0, 1]
FilasSobreElDominio(ns) ==
    \A i \in 1..Len(ns) :
        /\ SinRepetidos(ns[i].valores)
        /\ \A k \in DOMAIN ns[i].cpt :
              /\ Claves(ns[i].cpt[k]) = Rango(ns[i].valores)
              /\ \A j \in 1..Len(ns[i].cpt[k]) : EnCeroUno(ns[i].cpt[k][j][2])

RedBienFormada(ns) == ~TieneCiclo(ns) /\ FilasSobreElDominio(ns)

EsConsulta == resultado.op = "inferencia_por_enumeracion"

\* a query with no evidence about a variable of a validated network
ConsultaSinEvidencia ==
    /\ validada
    /\ EsConsulta
    /\ resultado.condiciones = SinCondiciones
    /\ resultado.consulta \in Nombres(nodos)

SumaCasiUno(dist) == ~MasLejosQue(SumaExacta(dist), Uno, Tolerancia)

\* C1 as stated: on any validated network ask(q, {}) returns a distribution
\* that sums to 1 within 1e-6.
C1_Original ==
    ConsultaSinEvidencia => (resultado.estado = "ok" /\ SumaCasiUno(resultado.valor))

\* C1: on a validated network that is acyclic and whose rows are keyed by
\* exactly the node's domain values with probabilities in [0, 1], ask(q, {})
\* returns a distribution that sums to 1 within 1e-6.
C1_SumaUno ==
    (ConsultaSinEvidencia /\ RedBienFormada(nodos))
        => (resultado.estado = "ok" /\ SumaCasiUno(resultado.valor))

\* the query was answered on the two-node chain
C1_Testigo ==
    /\ ConsultaSinEvidencia
    /\ RedBienFormada(nodos)
    /\ resultado.estado = "ok"
    /\ Len(nodos) = 2
    /\ \E i \in 1..2 : nodos[i].padres # <<>>

\* the network of the worked example: Rain -> Umbrella, binary domains,
\* P(Rain=yes) = 0.2, P(Umbrella=yes | Rain=yes) = 0.9, P(Umbrella=yes | Rain=no) = 0.2
EsRedLluvia ==
    /\ Nombres(nodos) = {"Rain", "Umbrella"}
    /\ Len(nodos) = 2
    /\ NodoDe(nodos, "Rain").valores = <<"yes", "no">>
    /\ NodoDe(nodos, "Umbrella").valores = <<"yes", "no">>
    /\ NodoDe(nodos, "Rain").padres = <<>>
    /\ NodoDe(nodos, "Umbrella").padres = <<"Rain">>
    /\ NodoDe(nodos, "Rain").cpt = [k \in {<<>>} |-> FilaLluvia]
    /\ NodoDe(nodos, "Umbrella").cpt =
          [k \in {<<"yes">>, <<"no">>} |->
              IF k = <<"yes">> THEN FilaParaguasSi ELSE FilaLluvia]

ConsultaDelEjemplo ==
    /\ validada
    /\ EsRedLluvia
    /\ EsConsulta
    /\ resultado.consulta = "Rain"
    /\ resultado.condiciones = Cond1("Umbrella", "yes")

\* x is n/10000 to four decimal places
CuatroDecimales(x, n) == ~MasLejosQue(x, Lit(n, 10000), Lit(5, 100000))

\* C2 as stated: the example query returns about 0.45 / 0.55.
C2_Original ==
    ConsultaDelEjemplo
        => /\ resultado.estado = "ok"
           /\ CuatroDecimales(Buscar(resultado.valor, "yes"), 4500)
           /\ CuatroDecimales(Buscar(resultado.valor, "no"), 5500)

\* C2: on the example network ask(Rain, {Umbrella: yes}) returns
\* {yes: 0.5294, no: 0.4706} to four decimal places (0.18/0.34, 0.16/0.34).
C2_EjemploLluvia ==
    ConsultaDelEjemplo
        => /\ resultado.estado = "ok"
           /\ Claves(resultado.valor) = {"yes", "no"}
           /\ CuatroDecimales(Buscar(resultado.valor, "yes"), 5294)
           /\ CuatroDecimales(Buscar(resultado.valor, "no"), 4706)

C2_Testigo == ConsultaDelEjemplo /\ resultado.estado = "ok"

EsEnumeracion == validada /\ resultado.op = "enumerar_todas"

\* the outcomes of _enumerar_todas under every valid topological ordering,
\* for the conditions of the call made
OtrosOrdenes ==
    {enumerar_todas(nodos, o, resultado.condiciones) : o \in OrdenesValidos(nodos)}

EvidenciaFueraDeDominio(x) ==
    /\ x \in DOMAIN resultado.condiciones
    /\ x \in Nombres(nodos)
    /\ resultado.condiciones[x] \notin Rango(NodoDe(nodos, x).valores)

\* no row of x has an entry for the value
SinEntrada(x, v) ==
    \A k \in DOMAIN NodoDe(nodos, x).cpt : v \notin Claves(NodoDe(nodos, x).cpt[k])

\* C6 as stated: evidence that assigns a variable of a validated network a
\* value outside its domain makes ask fail with KeyError.
C6_Original ==
    (validada /\ EsConsulta /\ \E x \in Nombres(nodos) : EvidenciaFueraDeDominio(x))
        => resultado.estado = "KeyError"

\* C6: on a validated acyclic network, evidence that assigns a variable
\* other than the query variable a value that is outside its domain and
\* that none of its CPT rows has as a key makes ask fail with KeyError.
C6_EvidenciaFueraDeDominio ==
    (/\ validada
     /\ EsConsulta
     /\ ~TieneCiclo(nodos)
     /\ \E x \in Nombres(nodos) :
           /\ x # resultado.consulta
           /\ EvidenciaFueraDeDominio(x)
           /\ SinEntrada(x, resultado.condiciones[x]))
        => (resultado.estado = "KeyError" /\ resultado.valor = Ninguno)

C6_Testigo ==
    /\ validada
    /\ EsConsulta
    /\ ~TieneCiclo(nodos)
    /\ resultado.consulta = "Rain"
    /\ EvidenciaFueraDeDominio("Umbrella")
    /\ SinEntrada("Umbrella", resultado.condiciones["Umbrella"])
    /\ resultado.estado = "KeyError"

\* the raw scores of the query made: the distribution before normalisation
PuntajesDeLaConsulta ==
    IF ~EsConsulta THEN Error("NoAplica", Ninguno)
    ELSE IF ~Existe(nodos, resultado.consulta) THEN Error("KeyError", "consulta")
    ELSE LET o == orden_topologico(nodos, hijos)
         IN  IF o.estado # "ok" THEN Error("ValueError", "ciclo")
             ELSE Puntajes(nodos, o.valor, resultado.consulta, resultado.condiciones,
                           1, <<>>)

TotalCero ==
    /\ PuntajesDeLaConsulta.estado = "ok"
    /\ Suma(PuntajesDeLaConsulta.valor) = Zero

\* C7 as stated: when the raw scores sum to exactly 0, ask fails with a
\* ZeroDivisionError and returns no distribution.
C7_Original ==
    TotalCero => (resultado.estado = "ZeroDivisionError" /\ resultado.valor = Ninguno)

\* C7: when the raw scores sum to exactly 0, ask fails with the ValueError
\* it raises before dividing, which is not the KeyError of a failed lookup,
\* and returns no distribution.
C7_TotalCero ==
    TotalCero
        => /\ resultado.estado = "ValueError"
           /\ resultado.motivo = "total_cero"
           /\ resultado.estado # "KeyError"
           /\ resultado.valor = Ninguno

C7_Testigo == TotalCero /\ resultado.condiciones # SinCondiciones

\* some stored row sums to a value more than 1e-6 away from 1
HayFilaDesviada(ns) ==
    \E i \in 1..Len(ns) : \E k \in DOMAIN ns[i].cpt :
        MasLejosQue(SumaExacta(ns[i].cpt[k]), Uno, Tolerancia)

\* C8: validar_red fails on every network that stores a row whose sum is
\* more than 1e-6 away from 1, and it never fails for the sum of a row when
\* every stored row is within that tolerance (1.0000005 is accepted).
C8_Tolerancia ==
    resultado.op = "validar_red"
        => /\ HayFilaDesviada(nodos) => resultado.estado = "ValueError"
           /\ resultado.motivo = "no_suma_1" => HayFilaDesviada(nodos)

\* a network with a row that sums to 0.9 or 1.1 was rejected for it
C8_Testigo ==
    /\ resultado.op = "validar_red"
    /\ resultado.estado = "ValueError"
    /\ resultado.motivo = "no_suma_1"
    /\ HayFilaDesviada(nodos)

\* C9: a call of validar_red changes nothing of the network (nodes, edges,
\* domains, CPT rows), and on a network it has already accepted it raises
\* no error.
C9_ValidarNoCambiaNada ==
    [][resultado'.op = "validar_red"
          => /\ nodos' = nodos
             /\ hijos' = hijos
             /\ validada => resultado'.estado = "ok"]_vars

\* validar_red accepted a network with a row inside the tolerance, after
\* which a query was answered: the state a second validation starts from
C9_Testigo ==
    /\ validada
    /\ consultas = 1
    /\ resultado.estado = "ok"
    /\ \E i \in 1..Len(nodos) : \E k \in DOMAIN nodos[i].cpt :
          nodos[i].cpt[k] = FilaHolgada

\* a query with no evidence about a root of a validated network
ConsultaDeRaiz ==
    /\ ConsultaSinEvidencia
    /\ NodoDe(nodos, resultado.consulta).padres = <<>>

FilaPrevia == NodoDe(nodos, resultado.consulta).cpt[<<>>]

\* C10 as stated: for a root r of a validated network ask(r, {}) returns
\* exactly r's prior row.
C10_Original ==
    ConsultaDeRaiz
        => /\ resultado.estado = "ok"
           /\ \A v \in Rango(NodoDe(nodos, resultado.consulta).valores) :
                 Buscar(resultado.valor, v) = Buscar(FilaPrevia, v)

\* C10: for a root r of a validated acyclic network whose rows are keyed by
\* exactly the node's domain values with probabilities in [0, 1], ask(r, {})
\* returns r's prior row renormalised: with n nodes, each probability is
\* within (2n + 1) * 1e-6 of the stored one.
C10_PreviaDeRaiz ==
    (ConsultaDeRaiz /\ RedBienFormada(nodos))
        => /\ resultado.estado = "ok"
           /\ Claves(resultado.valor) = Claves(FilaPrevia)
           /\ \A v \in Claves(FilaPrevia) :
                 ~MasLejosQue(Buscar(resultado.valor, v), Buscar(FilaPrevia, v),
                              Lit(2 * Len(nodos) + 1, 1000000))

\* the root queried has a child
C10_Testigo ==
    /\ ConsultaDeRaiz
    /\ RedBienFormada(nodos)
    /\ resultado.estado = "ok"
    /\ HijosDe(hijos, resultado.consulta) # <<>>


(***************************************************************************)
(* Calls of inferencia_por_enumeracion running at the same time on one     *)
(* validated network, with the same evidence dict passed to each.  A call  *)
(* advances by one iteration of its loop over the query variable's values. *)
(***************************************************************************)
RECURSIVE ConAristas(_, _, _)
ConAristas(red, aristas, i) ==
    IF i > Len(aristas) THEN red
    ELSE ConAristas(agregar_arista(red[1], red[2], aristas[i][1], aristas[i][2]),
                    aristas, i + 1)

RECURSIVE ConDominios(_, _, _)
ConDominios(ns, dominios, i) ==
    IF i > Len(dominios) THEN ns
    ELSE ConDominios(definir_info_nodo(ns, dominios[i][1], dominios[i][2]),
                     dominios, i + 1)

RECURSIVE ConFilas(_, _, _)
ConFilas(ns, filas, i) ==
    IF i > Len(filas) THEN ns
    ELSE ConFilas(definir_entrada_cpt(ns, filas[i][1], filas[i][2], filas[i][3]).nodos,
                  filas, i + 1)

\* the network after the calls a construction lists: [nodos, hijos]
Construir(aristas, dominios, filas) ==
    LET Con(red) == [nodos |-> ConFilas(ConDominios(red[1], dominios, 1), filas, 1),
                     hijos |-> red[2]]
    IN  Con(ConAristas(<<<<>>, HijosVacio>>, aristas, 1))

DominiosBinarios == <<<<"Rain", <<"yes", "no">>>>, <<"Umbrella", <<"yes", "no">>>>>>

\* Rain -> Umbrella; two roots, Umbrella never "yes"; Umbrella its own parent
RedesConstruidas ==
    {Construir(<<<<"Rain", "Umbrella">>>>, DominiosBinarios,
               <<<<"Rain", <<>>, FilaLluvia>>, <<"Umbrella", <<"yes">>, FilaParaguasSi>>,
                 <<"Umbrella", <<"no">>, FilaLluvia>>>>),
     Construir(<<>>, DominiosBinarios,
               <<<<"Rain", <<>>, FilaLluvia>>, <<"Umbrella", <<>>, FilaCero>>>>),
     Construir(<<<<"Umbrella", "Umbrella">>>>, DominiosBinarios,
               <<<<"Rain", <<>>, FilaLluvia>>, <<"Umbrella", <<"yes">>, FilaParaguasSi>>,
                 <<"Umbrella", <<"no">>, FilaLluvia>>>>)}

\* the dict the callers pass: empty, about a child, about a root with a value
\* outside its domain
EvidenciasCompartidas ==
    {SinCondiciones, Cond1("Umbrella", "yes"), Cond1("Rain", "bogus")}

InitConcurrente ==
    /\ \E red \in RedesConstruidas :
          /\ validar_red(red.nodos).estado = "ok"
          /\ nodos = red.nodos
          /\ hijos = red.hijos
    /\ validada = TRUE
    /\ consultas = 0
    /\ resultado = SinResultado
    /\ evidencia \in EvidenciasCompartidas
    /\ hilos = [t \in Hilos |-> HiloLibre]

\* the call has returned or raised
Terminado(h, estado, motivo, valor, total) ==
    [h EXCEPT !.pc = "fin", !.estado = estado, !.motivo = motivo, !.valor = valor,
              !.total = total]

\* lines 432-447: the checks and locals before the loop
Iniciar_consulta(t) ==
    /\ hilos[t].pc = "libre"
    /\ \E q \in ConsultasEntrada, traza \in BOOLEAN :
          LET h == [hilos[t] EXCEPT !.consulta = q, !.traza = traza]
              Aplicar(orden) ==
                  hilos' = [hilos EXCEPT ![t] =
                      IF ~Existe(nodos, q)
                      THEN Terminado(h, "KeyError", "consulta", Ninguno, Ninguno)
                      ELSE IF orden.estado # "ok"
                      THEN Terminado(h, "ValueError", "ciclo", Ninguno, Ninguno)
                      ELSE [h EXCEPT !.pc = "bucle", !.orden = orden.valor, !.i = 1,
                                     !.impreso = traza]]
          IN  Aplicar(orden_topologico(nodos, hijos))
    /\ UNCHANGED <<nodos, hijos, validada, consultas, resultado, evidencia>>

\* variant: condiciones_extendidas = condiciones_observadas, the caller's
\* dict itself and not a copy of it
IterarSinCopia(t) ==
    /\ hilos[t].pc = "bucle"
    /\ hilos[t].i <= Len(NodoDe(nodos, hilos[t].consulta).valores)
    /\ LET Aplicar(h, valor, p) ==
               hilos' = [hilos EXCEPT ![t] =
                   IF p.estado # "ok"
                   THEN Terminado(h, "KeyError", p.motivo, Ninguno, Ninguno)
                   ELSE [h EXCEPT !.i = @ + 1,
                                  !.distribucion = PonerFila(@, valor, p.valor)]]
           Con(h, valor) ==
               /\ evidencia' = Poner(evidencia, h.consulta, valor)
               /\ Aplicar(h, valor,
                          enumerar_todas(nodos, h.orden,
                                         Poner(evidencia, h.consulta, valor)))
       IN  Con(hilos[t], NodoDe(nodos, hilos[t].consulta).valores[hilos[t].i])
    /\ UNCHANGED <<nodos, hijos, validada, consultas, resultado>>

\* lines 449-457: one iteration of `for valor in nodo_consulta.valores`
Iterar_consulta(t) ==
    /\ hilos[t].pc = "bucle"
    /\ hilos[t].i <= Len(NodoDe(nodos, hilos[t].consulta).valores)
    /\ LET Aplicar(h, valor, p) ==
               hilos' = [hilos EXCEPT ![t] =
                   IF p.estado # "ok"
                   THEN Terminado(h, "KeyError", p.motivo, Ninguno, Ninguno)
                   ELSE [h EXCEPT !.i = @ + 1,
                                  !.distribucion = PonerFila(@, valor, p.valor)]]
           Con(h, valor) ==
               Aplicar(h, valor,
                       enumerar_todas(nodos, h.orden,
                                      Poner(evidencia, h.consulta, valor)))
       IN  Con(hilos[t], NodoDe(nodos, hilos[t].consulta).valores[hilos[t].i])
    /\ UNCHANGED <<nodos, hijos, validada, consultas, resultado, evidencia>>

\* lines 462-473: the total, its test against 0, the division, the return
Terminar_consulta(t) ==
    /\ hilos[t].pc = "bucle"
    /\ hilos[t].i > Len(NodoDe(nodos, hilos[t].consulta).valores)
    /\ LET Aplicar(h, total) ==
               hilos' = [hilos EXCEPT ![t] =
                   IF total = Zero
                   THEN Terminado(h, "ValueError", "total_cero", Ninguno, total)
                   ELSE Terminado(h, "ok", Ninguno, Normalizar(h.distribucion, total),
                                  total)]
       IN  Aplicar(hilos[t], Suma(hilos[t].distribucion))
    /\ UNCHANGED <<nodos, hijos, validada, consultas, resultado, evidencia>>

NextConcurrente ==
    \E t \in Hilos :
        \/ Iniciar_consulta(t)
        \/ Iterar_consulta(t)
        \/ Terminar_consulta(t)

SpecConcurrente == InitConcurrente /\ [][NextConcurrente]_vars

\* what a finished call handed to its caller
Devuelto(h) ==
    [estado |-> h.estado, motivo |-> h.motivo, valor |-> h.valor, total |-> h.total]

\* C11: no step of a call of inferencia_por_enumeracion, with the trace on or
\* off, changes the network (nodos with their domains, parents and CPTs, and
\* hijos) or the caller's evidence dict, and a call that ends while others
\* run returns or raises exactly what the same call gives when run alone.
C11_ConsultaSinEfectos ==
    [][/\ nodos' = nodos
       /\ hijos' = hijos
       /\ evidencia' = evidencia
       /\ \A t \in Hilos :
             (hilos[t].pc # "fin" /\ hilos'[t].pc = "fin")
             => Devuelto(hilos'[t])
                = inferencia_por_enumeracion(nodos, hijos, hilos'[t].consulta, evidencia)]_vars

\* one call has returned a distribution while another, for a different
\* variable and with the trace on, is inside its loop
C11_Testigo ==
    \E t \in Hilos, u \in Hilos :
        /\ hilos[t].pc = "fin"
        /\ hilos[t].estado = "ok"
        /\ hilos[u].pc = "bucle"
        /\ hilos[u].i = 2
        /\ hilos[u].traza
        /\ hilos[u].consulta # hilos[t].consulta
        /\ evidencia # SinCondiciones

(***************************************************************************)
(* Sign of the returned probabilities                                      *)
(***************************************************************************)
\* every row the network holds passes the test definir_entrada_cpt makes
\* before it stores a row
FilasAceptadas(ns) ==
    \A i \in 1..Len(ns) : \A k \in DOMAIN ns[i].cpt : ~NoSumaUno(ns[i].cpt[k])

\* C12 as stated: on a network whose rows definir_entrada_cpt accepted and
\* that validar_red accepted, every probability of a distribution that
\* inferencia_por_enumeracion returns is >= 0.
C12_Original ==
    (validada /\ EsConsulta /\ resultado.estado = "ok" /\ FilasAceptadas(nodos))
    => \A i \in 1..Len(resultado.valor) : FCmp(resultado.valor[i][2], Zero) >= 0

(***************************************************************************)
(* hijos against the padres lists                                          *)
(***************************************************************************)
\* how many times x occurs in the list
Cuenta(lista, x) == Cardinality({i \in 1..Len(lista) : lista[i] = x})

VecesEnHijos(p, c) == Cuenta(HijosDe(hijos, p), c)

VecesEnPadres(p, c) == IF Existe(nodos, c) THEN Cuenta(NodoDe(nodos, c).padres, p) ELSE 0

\* C13: after any sequence of agregar_arista, definir_info_nodo and
\* definir_entrada_cpt calls, c occurs in hijos[p] as often as p occurs in
\* nodos[c].padres, and at most once; and agregar_arista(p, c) for an edge
\* the network already holds returns the network as it was.
C13_HijosYPadres ==
    \A p \in NombresEstructura, c \in NombresEstructura :
        /\ VecesEnHijos(p, c) = VecesEnPadres(p, c)
        /\ VecesEnPadres(p, c) <= 1
        /\ (VecesEnPadres(p, c) = 1
            => agregar_arista(nodos, hijos, p, c) = <<nodos, hijos>>)

\* a node with two parents, one of them itself, in a network that holds a
\* CPT row and a declared domain
C13_Testigo ==
    /\ \E c \in NombresEstructura, p \in NombresEstructura :
          /\ p # c
          /\ VecesEnPadres(p, c) = 1
          /\ VecesEnPadres(c, c) = 1
          /\ VecesEnHijos(c, c) = 1
    /\ \E i \in 1..Len(nodos) : DOMAIN nodos[i].cpt # {} /\ nodos[i].valores # <<>>

(***************************************************************************)
(* desde_archivos.  The structure file is the sequence of its lines split  *)
(* at "->"; the CPT file is the sequence of its NODE ... ENDNODE blocks,   *)
(* each with the tokens of its VALUES and PARENTS lines and of its table   *)
(* rows.  A block has its keywords in place: the errors modelled are those *)
(* of the lines' contents.                                                 *)
(***************************************************************************)
\* the network being loaded, or the exception that ended the load
Cargando(ns, hs) == [estado |-> "ok", motivo |-> Ninguno, nodos |-> ns, hijos |-> hs]

Falla(tipo, motivo) ==
    [estado |-> tipo, motivo |-> motivo, nodos |-> <<>>, hijos |-> HijosVacio]

\* the decimal literals the tables use, as numerator and denominator
Literales ==
    ("0.1" :> <<1, 10>>) @@ ("0.2" :> <<2, 10>>) @@ ("0.3" :> <<3, 10>>)
    @@ ("0.7" :> <<7, 10>>) @@ ("0.8" :> <<8, 10>>) @@ ("0.9" :> <<9, 10>>)

\* float(prob): the binary64 nearest to the literal, ValueError for a token
\* that is no number
float(prob) ==
    IF prob \in DOMAIN Literales
    THEN Valor(Lit(Literales[prob][1], Literales[prob][2]))
    ELSE Error("ValueError", "float")

\* lines 303-321: one agregar_arista per line, in file order
RECURSIVE CargarEstructura(_, _, _)
CargarEstructura(red, lineas, i) ==
    LET Con(r) == CargarEstructura(Cargando(r[1], r[2]), lineas, i + 1)
    IN  IF i > Len(lineas) THEN red
        ELSE IF Len(lineas[i]) # 2 THEN Falla("ValueError", "linea_sin_flecha")
        ELSE Con(agregar_arista(red.nodos, red.hijos, lineas[i][1], lineas[i][2]))

\* lines 358-369: the body of `for padre in padres`
EnlazarPadre(red, nombre_nodo, valores, padre) ==
    LET ConHijos(ns, hs) ==
            Cargando(ns,
                     IF nombre_nodo \in Rango(hs[padre]) THEN hs
                     ELSE [hs EXCEPT ![padre] = Append(@, nombre_nodo)])
        ConPadre(ns, ih) ==
            ConHijos(IF padre \in Rango(ns[ih].padres) THEN ns
                     ELSE [ns EXCEPT ![ih].padres = Append(@, padre)],
                     IF padre \in DOMAIN red.hijos THEN red.hijos
                     ELSE Poner(red.hijos, padre, <<>>))
        ConNodos(ns) == ConPadre(ns, Indice(ns, nombre_nodo))
        ConCreado(ns) ==
            ConNodos(IF Existe(ns, nombre_nodo) THEN ns
                     ELSE Append(ns, Nodo(nombre_nodo, valores)))
    IN  ConCreado(CrearSiFalta(red.nodos, padre))

RECURSIVE EnlazarPadres(_, _, _, _, _)
EnlazarPadres(red, nombre_nodo, valores, padres, j) ==
    IF j > Len(padres) THEN red
    ELSE EnlazarPadres(EnlazarPadre(red, nombre_nodo, valores, padres[j]),
                       nombre_nodo, valores, padres, j + 1)

\* {val: float(prob) for val, prob in zip(valores, probabilidades)}
RECURSIVE DistProbabilidades(_, _, _, _)
DistProbabilidades(valores, probabilidades, j, dist) ==
    LET Con(p) ==
            IF p.estado # "ok" THEN p
            ELSE DistProbabilidades(valores, probabilidades, j + 1,
                                    PonerFila(dist, valores[j], p.valor))
    IN  IF j > Len(valores) THEN Valor(dist) ELSE Con(float(probabilidades[j]))

\* lines 383-407: the table rows of one block from row k on
RECURSIVE CargarFilas(_, _, _, _, _, _)
CargarFilas(red, nombre_nodo, valores, padres, filas, k) ==
    LET ConFila(r) ==
            IF r.estado # "ok" THEN Falla("ValueError", "no_suma_1")
            ELSE CargarFilas(Cargando(r.nodos, red.hijos), nombre_nodo, valores,
                             padres, filas, k + 1)
        ConDist(valores_padres, dist) ==
            IF dist.estado # "ok" THEN Falla(dist.estado, dist.motivo)
            ELSE ConFila(definir_entrada_cpt(red.nodos, nombre_nodo, valores_padres,
                                             dist.valor))
        Con(fila) ==
            IF Len(fila) # Len(padres) + Len(valores)
            THEN Falla("ValueError", "fila_mal_formateada")
            ELSE ConDist(SubSeq(fila, 1, Len(padres)),
                         DistProbabilidades(valores,
                                            SubSeq(fila, Len(padres) + 1, Len(fila)),
                                            1, <<>>))
    IN  IF k > Len(filas) THEN red ELSE Con(filas[k])

\* lines 332-411: the blocks of the CPT file from block b on
RECURSIVE CargarBloques(_, _, _)
CargarBloques(red, bloques, b) ==
    LET ConFilas2(r) ==
            IF r.estado # "ok" THEN r ELSE CargarBloques(r, bloques, b + 1)
        Con(bloque, ns) ==
            ConFilas2(CargarFilas(EnlazarPadres(Cargando(ns, red.hijos), bloque.nombre,
                                                bloque.valores, bloque.padres, 1),
                                  bloque.nombre, bloque.valores, bloque.padres,
                                  bloque.filas, 1))
    IN  IF b > Len(bloques) THEN red
        ELSE Con(bloques[b],
                 definir_info_nodo(red.nodos, bloques[b].nombre, bloques[b].valores))

\* desde_archivos: [estado, motivo, nodos, hijos]
desde_archivos(estructura, cpt) ==
    LET ConValidacion(red, v) ==
            IF v.estado # "ok" THEN Falla(v.estado, v.motivo) ELSE red
        ConBloques(red) ==
            IF red.estado # "ok" THEN red ELSE ConValidacion(red, validar_red(red.nodos))
        ConEstructura(red) ==
            IF red.estado # "ok" THEN red ELSE ConBloques(CargarBloques(red, cpt, 1))
    IN  ConEstructura(CargarEstructura(Cargando(<<>>, HijosVacio), estructura, 1))

(***************************************************************************)
(* The files given to desde_archivos: Rain and Sprinkler are the parents   *)
(* of Umbrella.                                                            *)
(***************************************************************************)
Bloque(nombre, valores, padres, filas) ==
    [nombre |-> nombre, valores |-> valores, padres |-> padres, filas |-> filas]

SiNo == <<"yes", "no">>

BloqueRain == Bloque("Rain", SiNo, <<>>, <<<<"0.2", "0.8">>>>)

BloqueSprinkler(valores) == Bloque("Sprinkler", valores, <<>>, <<<<"0.1", "0.9">>>>)

\* one row per pair of values of the first and the second parent
TablaUmbrella(v1, v2) ==
    <<<<v1[1], v2[1], "0.9", "0.1">>, <<v1[1], v2[2], "0.8", "0.2">>,
      <<v1[2], v2[1], "0.3", "0.7">>, <<v1[2], v2[2], "0.1", "0.9">>>>

Defectos == {"ninguno", "fila_corta", "no_numero", "no_suma", "falta_fila"}

\* the table with its second row, or its last, spoilt
ConDefecto(tabla, defecto) ==
    CASE defecto = "ninguno" -> tabla
      [] defecto = "fila_corta" -> [tabla EXCEPT ![2] = SubSeq(@, 2, 4)]
      [] defecto = "no_numero" -> [tabla EXCEPT ![2][4] = "x"]
      [] defecto = "no_suma" -> [tabla EXCEPT ![2][4] = "0.3"]
      [] defecto = "falta_fila" -> SubSeq(tabla, 1, 3)

DominioDe(nombre, sprinkler) == IF nombre = "Sprinkler" THEN sprinkler ELSE SiNo

BloqueUmbrella(padres, sprinkler, defecto) ==
    Bloque("Umbrella", SiNo, padres,
           ConDefecto(TablaUmbrella(DominioDe(padres[1], sprinkler),
                                    DominioDe(padres[2], sprinkler)), defecto))

OrdenesDePadres == {<<"Rain", "Sprinkler">>, <<"Sprinkler", "Rain">>}

DominiosSprinkler == {SiNo, <<"on", "off">>}

\* Umbrella's block last, with or without a defect; Umbrella's block first;
\* Umbrella with the PARENTS line "PARENTS Rain"; Umbrella without one
ArchivosCpt ==
    {<<BloqueRain, BloqueSprinkler(d), BloqueUmbrella(p, d, x)>> :
        p \in OrdenesDePadres, d \in DominiosSprinkler, x \in Defectos}
    \cup {<<BloqueUmbrella(p, d, "ninguno"), BloqueRain, BloqueSprinkler(d)>> :
        p \in OrdenesDePadres, d \in DominiosSprinkler}
    \cup {<<BloqueRain, BloqueSprinkler(SiNo),
            Bloque("Umbrella", SiNo, <<"Rain">>,
                   <<<<"yes", "0.9", "0.1">>, <<"no", "0.2", "0.8">>>>)>>,
          <<BloqueRain, BloqueSprinkler(SiNo),
            Bloque("Umbrella", SiNo, <<>>, <<<<"0.3", "0.7">>>>)>>}

\* the lines "Padre -> Hijo" in the orders a file can list them, no line,
\* one of the two, and a line without "->"
ArchivosEstructura ==
    {<<<<"Rain", "Umbrella">>, <<"Sprinkler", "Umbrella">>>>,
     <<<<"Sprinkler", "Umbrella">>, <<"Rain", "Umbrella">>>>,
     <<>>,
     <<<<"Rain", "Umbrella">>>>,
     <<<<"Sprinkler", "Umbrella">>>>,
     <<<<"Rain", "Umbrella">>, <<"Rain">>>>}

\* red = RedBayesiana.desde_archivos(...): the network object is the one the
\* call makes (line 299), so the call acts on the state after construction
Llamar_desde_archivos ==
    /\ nodos = <<>>
    /\ hijos = HijosVacio
    /\ resultado = SinResultado
    /\ \E e \in ArchivosEstructura, c \in ArchivosCpt :
          LET Aplicar(r) ==
                  /\ nodos' = r.nodos
                  /\ hijos' = r.hijos
                  /\ validada' = (r.estado = "ok")
                  /\ resultado' = [op |-> "desde_archivos", estructura |-> e,
                                   cpt |-> c, estado |-> r.estado, motivo |-> r.motivo]
          IN  Aplicar(desde_archivos(e, c))
    /\ consultas' = 0
    /\ UNCHANGED <<evidencia, hilos>>

\* the evidence of the queries on a loaded network: also about two variables
CondicionesCargador ==
    CondicionesEntrada
    \cup {Cond2("Rain", "bogus", "Sprinkler", "yes"),
          Cond2("Umbrella", "no", "Rain", "yes"),
          Cond2("Umbrella", "bogus", "Sprinkler", "on")}

NextCargador ==
    \/ Llamar_desde_archivos
    \/ Llamar_inferencia(CondicionesCargador)

SpecCargador == Init /\ [][NextCargador]_vars

\* the network is as desde_archivos returned it
EsCarga == resultado.op = "desde_archivos" /\ resultado.estado = "ok"

\* the assignment that gives the i-th name of the PARENTS line the i-th
\* parent value of the row
AsignacionDeFila(padres, fila) ==
    [p \in Rango(padres) |-> fila[CHOOSE i \in 1..Len(padres) : padres[i] = p]]

\* the lookups under a row's assignment return the row's probabilities
FilaRecuperada(bloque, fila) ==
    \A j \in 1..Len(bloque.valores) :
        probabilidad(NodoDe(nodos, bloque.nombre), bloque.valores[j],
                     AsignacionDeFila(bloque.padres, fila))
        = float(fila[Len(bloque.padres) + j])

\* C14 as stated: after desde_archivos succeeds, for every table row of a
\* node with a PARENTS line, the node's lookup under the assignment that
\* gives the i-th name of that line the i-th parent value of the row returns
\* the row's probabilities, in whatever order the structure file listed the
\* edges.
C14_Original ==
    EsCarga
    => \A b \in 1..Len(resultado.cpt) :
          resultado.cpt[b].padres # <<>>
          => \A k \in 1..Len(resultado.cpt[b].filas) :
                FilaRecuperada(resultado.cpt[b], resultado.cpt[b].filas[k])

(***************************************************************************)
(* The parents of the variable _enumerar_todas is processing                *)
(***************************************************************************)
\* the keys of `condiciones` when _enumerar_todas reaches orden[k] in a call
\* made by inferencia_por_enumeracion: the evidence, the query variable and
\* every variable before orden[k], observed or being summed over
Asignadas(orden, k) ==
    DOMAIN resultado.condiciones \cup {resultado.consulta}
    \cup {orden[j] : j \in 1..(k - 1)}

PadresAsignados(orden) ==
    \A k \in 1..Len(orden) :
        Rango(NodoDe(nodos, orden[k]).padres) \subseteq Asignadas(orden, k)

\* C15: in a call of inferencia_por_enumeracion on a network whose
\* orden_topologico succeeds, every parent of the variable _enumerar_todas
\* processes is already a key of the current assignment, so the lookup never
\* fails for a parent without a value: the key has one value per parent.
C15_PadresYaAsignados ==
    LET Con(orden) ==
            orden.estado = "ok"
            => /\ PadresAsignados(orden.valor)
               /\ resultado.motivo # "padre_sin_valor"
    IN  (EsConsulta /\ resultado.consulta \in Nombres(nodos))
        => Con(orden_topologico(nodos, hijos))

\* a query without evidence for a node with two parents that precedes them
\* in `nodos` returned a distribution
C15_Testigo ==
    /\ EsConsulta
    /\ resultado.estado = "ok"
    /\ resultado.condiciones = SinCondiciones
    /\ resultado.consulta = "Umbrella"
    /\ nodos[1].nombre = "Umbrella"
    /\ Len(nodos[1].padres) = 2

(***************************************************************************)
(* Evidence about the query variable                                       *)
(***************************************************************************)
\* the dict without the key k
SinClave(d, k) == [x \in DOMAIN d \ {k} |-> d[x]]

\* what the call recorded in `resultado` returned or raised
DevueltoPorLaConsulta ==
    [estado |-> resultado.estado, motivo |-> resultado.motivo,
     valor |-> resultado.valor, total |-> resultado.total]

\* C16: when the evidence has an entry for the query variable, whatever its
\* value, inferencia_por_enumeracion returns or raises what it does for the
\* evidence without that entry: each value tried for the query variable
\* overwrites the entry.
C16_EntradaDeLaConsulta ==
    (EsConsulta /\ resultado.consulta \in DOMAIN resultado.condiciones)
    => DevueltoPorLaConsulta
       = inferencia_por_enumeracion(nodos, hijos, resultado.consulta,
                                    SinClave(resultado.condiciones, resultado.consulta))

\* a query returned a distribution although the evidence gives the query
\* variable a value outside its domain, next to an entry for a parent
C16_Testigo ==
    /\ EsConsulta
    /\ resultado.estado = "ok"
    /\ resultado.consulta = "Umbrella"
    /\ resultado.condiciones = Cond2("Umbrella", "bogus", "Sprinkler", "on")
====
